---------------------------- MODULE Spec2Model ----------------------------
(***************************************************************************)
(* A model of the medical RAG chatbot backend:                             *)
(*   backend/rag_engine.py     MedicalRAGEngine (retrieve, generate, query)*)
(*   backend/pdf_processor.py  the ingestion pipeline                      *)
(*   backend/app.py            the Flask handlers and background threads   *)
(*                                                                         *)
(* Strings are sequences of symbols.  A symbol is either a whitespace      *)
(* character or an opaque run of non-whitespace text, so that strip(),     *)
(* join() and substring tests are computed as Python computes them.        *)
(* A Python dict with optional keys is a record whose fields hold {} (key  *)
(* absent) or {v} (key present with value v).                              *)
(***************************************************************************)
EXTENDS Integers, Sequences, FiniteSets, TLC

VARIABLES
    qpc, qenv, qres,                    \* one call of MedicalRAGEngine.query
    directory, nextId, store, run,      \* ingestion runs and the vector store
    rag_engine, initialization_complete, initialization_error,  \* app.py globals
    initPc, statusH, queryH, processH   \* init thread and request handlers

queryVars  == <<qpc, qenv, qres>>
ingestVars == <<directory, nextId, store, run>>
appVars    == <<rag_engine, initialization_complete, initialization_error,
                initPc, statusH, queryH, processH>>
vars       == <<queryVars, ingestVars, appVars>>

-----------------------------------------------------------------------------
(* Bounds of the model *)

MaxMatches == 2
MaxChunks == 250
MaxFiles == 2
MaxRuns == 2
ChunkSize == 2
ChunkOverlap == 1

(* Program constants *)

BatchSize == 100

-----------------------------------------------------------------------------
(* Python strings *)

Whitespace == {" ", "\n", "\t"}

IsSpace(c) == c \in Whitespace

RECURSIVE LStrip(_)
LStrip(s) ==
    IF s = <<>> THEN s
    ELSE IF IsSpace(Head(s)) THEN LStrip(Tail(s)) ELSE s

RECURSIVE RStrip(_)
RStrip(s) ==
    IF s = <<>> THEN s
    ELSE IF IsSpace(s[Len(s)]) THEN RStrip(SubSeq(s, 1, Len(s) - 1)) ELSE s

\* str.strip()
Strip(s) == RStrip(LStrip(s))

\* sep.join(parts)
RECURSIVE Join(_, _)
Join(parts, sep) ==
    IF parts = <<>> THEN <<>>
    ELSE IF Len(parts) = 1 THEN parts[1]
    ELSE parts[1] \o sep \o Join(Tail(parts), sep)

\* needle in haystack
Contains(haystack, needle) ==
    \E i \in 1..(Len(haystack) - Len(needle) + 1) :
        SubSeq(haystack, i, i + Len(needle) - 1) = needle

Range(f) == {f[i] : i \in DOMAIN f}

\* dict.get(key, default) on an optional field
DictGet(opt, default) == IF opt = {} THEN default ELSE CHOOSE v \in opt : TRUE

\* Python values whose shape matters to a caller
PyStr(s) == [type |-> "str", str |-> s]
PyTuple(items) == [type |-> "tuple", items |-> items]

\* the outcome of a call: a returned value or a raised exception
Return(v) == [exc |-> {}, val |-> {v}]
Raise(e) == [exc |-> {e}, val |-> {}]
Raised(r) == r.exc # {}
ValueOf(r) == CHOOSE v \in r.val : TRUE
ErrorOf(r) == CHOOSE e \in r.exc : TRUE

-----------------------------------------------------------------------------
(* rag_engine.py: MedicalRAGEngine *)

NoContextMessage ==
    <<"I couldn't find specific information related to your query in my medical knowledge base. Please consult a healthcare professional for accurate medical advice.">>

FallbackMessage ==
    <<"I couldn't generate a response at this time. Please try again later.">>

ErrorMessage ==
    <<"I encountered an error while processing your query. Please try again or rephrase your question.">>

\* what the external services can answer within the bounds
SourceValues == {"drugA.pdf", "drugB.pdf", "Unknown"}
MatchTexts == {<<>>, <<" ">>, <<"Aspirin reduces fever.">>}
UserQueries == {<<"What reduces fever?">>}
ErrorTexts == {<<"HTTP", " ", "401">>}
LlmTexts == {<<>>, <<" ", "\n">>, <<" ", "Aspirin.", "\n">>}

EmptyDict == [text |-> {}, source |-> {}]

Metadatas ==
    [text : {{}} \cup {{t} : t \in MatchTexts},
     source : {{}} \cup {{s} : s \in SourceValues}]

Matches == [metadata : {{}} \cup {{md} : md \in Metadatas}]

MatchLists == UNION {[1..n -> Matches] : n \in 0..MaxMatches}

\* iteration orders of a set of strings: one per hash seed of the process
HashOrders ==
    {o \in [1..Cardinality(SourceValues) -> SourceValues] : Range(o) = SourceValues}

EmbedOutcomes == {[kind |-> "ok"]} \cup {[kind |-> "raise", err |-> e] : e \in ErrorTexts}

\* index.query: an error, or a result dict with or without its 'matches' key
StoreOutcomes ==
    {[kind |-> "raise", err |-> e] : e \in ErrorTexts}
    \cup {[kind |-> "ok", matches |-> {}]}
    \cup {[kind |-> "ok", matches |-> {ms}] : ms \in MatchLists}

Choices == [text : {{}} \cup {{t} : t \in LlmTexts}]

\* together.Complete.create: an error, or a response dict
LlmOutcomes ==
    {[kind |-> "raise", err |-> e] : e \in ErrorTexts}
    \cup {[kind |-> "ok", choices |-> {}]}
    \cup {[kind |-> "ok", choices |-> {<<>>}]}
    \cup {[kind |-> "ok", choices |-> {<<c>>}] : c \in Choices}

QueryEnvs ==
    [user_query : UserQueries, embed : EmbedOutcomes, store : StoreOutcomes,
     hashOrder : HashOrders, llm : LlmOutcomes]

\* list(sources) without de-duplication
SourceList_NoDedup(sources, hashOrder) == sources

\* list(set(sources)): each distinct element once, in the set's iteration order
DistinctSources(sources, hashOrder) ==
    SelectSeq(hashOrder, LAMBDA s : s \in Range(sources))

retrieve_relevant_context(env) ==
    IF env.embed.kind = "raise" THEN Raise(env.embed.err)
    ELSE IF env.store.kind = "raise" THEN Raise(env.store.err)
    ELSE IF env.store.matches = {} THEN Raise(<<"KeyError:", " ", "'matches'">>)
    ELSE
        LET matches == DictGet(env.store.matches, <<>>)
            metadata(i) == DictGet(matches[i].metadata, EmptyDict)
            context_texts == [i \in 1..Len(matches) |-> DictGet(metadata(i).text, <<>>)]
            sources == [i \in 1..Len(matches) |-> DictGet(metadata(i).source, "Unknown")]
        IN Return([combined_context |-> Join(context_texts, <<"\n", "\n">>),
                   sources |-> DistinctSources(sources, env.hashOrder)])

Prompt(user_query, context) ==
    <<"You are a helpful medical assistant ...", "\n", "CONTEXT:", "\n">> \o context
    \o <<"\n", "\n", "QUESTION:", "\n">> \o user_query
    \o <<"\n", "\n", "ANSWER:", "\n">>

\* the value returned when the model produced no text (line 84): a 2-tuple
EmptyGeneration == PyTuple(<<PyStr(FallbackMessage), <<>>>>)

generate_response(user_query, context, llm) ==
    IF llm.kind = "raise" THEN Raise(llm.err)
    ELSE
        LET choices == DictGet(llm.choices, <<>>)
        IN  IF choices = <<>>
            THEN Return(EmptyGeneration)
            ELSE IF choices[1].text = {} THEN Raise(<<"KeyError:", " ", "'text'">>)
            ELSE LET generated_text == Strip(DictGet(choices[1].text, <<>>))
                 IN  IF generated_text = <<>>
                     THEN Return(EmptyGeneration)
                     ELSE Return(PyStr(generated_text))

\* `not context` : true of the empty string only
ContextIsBlank_NoStrip(context) == context = <<>>

\* `not context.strip()`
ContextIsBlank(context) == Strip(context) = <<>>

\* an except branch that echoes the exception
ExceptBranch_Echo(e) ==
    [response |-> PyStr(<<"Error:", " ">> \o e), sources |-> <<>>]

\* the except branch of query: the exception is printed, the message is fixed
ExceptBranch(e) == [response |-> PyStr(ErrorMessage), sources |-> <<>>]

\* MedicalRAGEngine.query, with what it did on the way:
\*   retrieved  {} or {the value retrieve_relevant_context returned}
\*   llmCalls   the prompts and contexts handed to the generative model
\*   failure    {} or {the text of the exception caught}
\*   raised     whether an exception left query
engine_query(env) ==
    LET r == retrieve_relevant_context(env)
    IN  IF Raised(r)
        THEN [raised |-> FALSE, value |-> ExceptBranch(ErrorOf(r)),
              retrieved |-> {}, llmCalls |-> <<>>, failure |-> r.exc]
        ELSE
            LET context == ValueOf(r).combined_context
                sources == ValueOf(r).sources
            IN  IF ContextIsBlank(context)
                THEN [raised |-> FALSE,
                      value |-> [response |-> PyStr(NoContextMessage), sources |-> <<>>],
                      retrieved |-> r.val, llmCalls |-> <<>>, failure |-> {}]
                ELSE
                    LET g == generate_response(env.user_query, context, env.llm)
                        call == [prompt |-> Prompt(env.user_query, context),
                                 context |-> context]
                    IN  IF Raised(g)
                        THEN [raised |-> FALSE, value |-> ExceptBranch(ErrorOf(g)),
                              retrieved |-> r.val, llmCalls |-> <<call>>,
                              failure |-> g.exc]
                        ELSE [raised |-> FALSE,
                              value |-> [response |-> ValueOf(g), sources |-> sources],
                              retrieved |-> r.val, llmCalls |-> <<call>>,
                              failure |-> {}]

NoEnv == [user_query |-> <<>>]
NoResult == [raised |-> FALSE]

QueryInit == qpc = "idle" /\ qenv = NoEnv /\ qres = NoResult

\* a caller invokes query against some behaviour of the three services
QueryCall ==
    /\ qpc = "idle"
    /\ \E env \in QueryEnvs :
        /\ qenv' = env
        /\ qres' = engine_query(env)
    /\ qpc' = "done"
    /\ UNCHANGED <<ingestVars, appVars>>

\* the caller takes the result; the engine keeps no state between queries
QueryReturn ==
    /\ qpc = "done"
    /\ qpc' = "idle"
    /\ qenv' = NoEnv
    /\ qres' = NoResult
    /\ UNCHANGED <<ingestVars, appVars>>

-----------------------------------------------------------------------------
(* pdf_processor.py: the ingestion pipeline *)

\* file names are <<stem, extension>>; os.path.basename keeps both
FileNames == {<<"a", "pdf">>, <<"b", "pdf">>, <<"notes", "txt">>}

\* the order in which glob lists a directory
FileOrder == <<(<<"a", "pdf">>), (<<"b", "pdf">>), (<<"notes", "txt">>)>>

\* a file is unreadable (PdfReader or a page raises) or a list of pages, each
\* page's extract_text() giving None ({}) or a string ({text})
Unreadable == [kind |-> "unreadable", pages |-> <<>>]
FileContents ==
    { Unreadable,
      [kind |-> "pdf", pages |-> <<{}, {<<" ", "\n">>}>>],
      [kind |-> "pdf", pages |-> <<{<<"Aspirin reduces fever.">>}>>],
      [kind |-> "pdf", pages |-> <<{<<"Ibuprofen", " ">>}, {}, {<<"reduces", " ", "pain.">>}>>] }

\* a directory: up to MaxFiles files; what a file that is not a .pdf holds is
\* never read
Directories ==
    UNION {{dir \in [names -> FileContents] :
                \A n \in names : n[2] # "pdf" => dir[n] = Unreadable} :
              names \in {ns \in SUBSET FileNames : Cardinality(ns) <= MaxFiles}}

RECURSIVE ConcatPages(_)
ConcatPages(pages) ==
    IF pages = <<>> THEN <<>>
    ELSE DictGet(Head(pages), <<>>) \o ConcatPages(Tail(pages))

extract_text_from_pdf(content) ==
    IF content.kind = "unreadable"
    THEN Raise(<<"PdfReadError">>)
    ELSE Return(ConcatPages(content.pages))

\* a loop body without the try: the file's exception leaves the loop
ProcessOneFile_NoTry(documents, pdf_file, content) ==
    LET r == extract_text_from_pdf(content)
    IN  IF Raised(r) THEN r
        ELSE IF Strip(ValueOf(r)) # <<>>
             THEN Return(Append(documents, [text |-> ValueOf(r), source |-> pdf_file]))
             ELSE Return(documents)

\* the body of the loop of process_pdfs_directory, try and except included
ProcessOneFile(documents, pdf_file, content) ==
    LET r == extract_text_from_pdf(content)
    IN  IF Raised(r) THEN Return(documents)
        ELSE IF Strip(ValueOf(r)) # <<>>
             THEN Return(Append(documents, [text |-> ValueOf(r), source |-> pdf_file]))
             ELSE Return(documents)

\* glob.glob(os.path.join(directory_path, "*.pdf"))
GlobPdf(dir) == SelectSeq(FileOrder, LAMBDA n : n \in DOMAIN dir /\ n[2] = "pdf")

RECURSIVE ProcessFiles(_, _, _)
ProcessFiles(pdf_files, documents, dir) ==
    IF pdf_files = <<>> THEN Return(documents)
    ELSE LET r == ProcessOneFile(documents, Head(pdf_files), dir[Head(pdf_files)])
         IN  IF Raised(r) THEN r
             ELSE ProcessFiles(Tail(pdf_files), ValueOf(r), dir)

process_pdfs_directory(dir) == ProcessFiles(GlobPdf(dir), <<>>, dir)

\* RecursiveCharacterTextSplitter.create_documents, as cuts of at most ChunkSize
\* symbols that share ChunkOverlap symbols; the empty text gives no split
RECURSIVE SplitText(_)
SplitText(text) ==
    IF text = <<>> THEN <<>>
    ELSE IF Len(text) <= ChunkSize THEN <<text>>
    ELSE <<SubSeq(text, 1, ChunkSize)>>
         \o SplitText(SubSeq(text, ChunkSize - ChunkOverlap + 1, Len(text)))

\* an id derived from the chunk's place in its document
ChunkId_FromPosition(fresh, source, i) == <<source, i>>

\* str(uuid.uuid4()): a value no earlier call returned, the fresh-th ever drawn
ChunkId(fresh, source, i) == <<"uuid4", fresh>>

\* the chunks of one document, the first of them drawing uuid number `fresh`
ChunksOfDoc(doc, fresh) ==
    LET splits == SplitText(doc.text)
    IN  [k \in 1..Len(splits) |->
            [id |-> ChunkId(fresh + k - 1, doc.source, k - 1),
             text |-> splits[k],
             metadata |-> [source |-> doc.source, chunk_index |-> k - 1,
                           text |-> splits[k]]]]

RECURSIVE chunk_documents(_, _)
chunk_documents(documents, fresh) ==
    IF documents = <<>> THEN <<>>
    ELSE LET first == ChunksOfDoc(Head(documents), fresh)
         IN  first \o chunk_documents(Tail(documents), fresh + Len(first))

\* embeddings.embed_documents: one vector per text, in order
EmbedText(text) == <<"vector of", text>>

\* to_upsert: zip(chunks, vectors)
Payload(chunks) ==
    [k \in 1..Len(chunks) |->
        [id |-> chunks[k].id, values |-> EmbedText(chunks[k].text),
         metadata |-> chunks[k].metadata]]

Min(a, b) == IF a <= b THEN a ELSE b

\* a slice that drops a short last batch
Batch_FullOnly(to_upsert, i) ==
    IF i + BatchSize <= Len(to_upsert) THEN SubSeq(to_upsert, i + 1, i + BatchSize)
    ELSE <<>>

\* to_upsert[i:i+batch_size]
Batch(to_upsert, i) == SubSeq(to_upsert, i + 1, Min(i + BatchSize, Len(to_upsert)))

\* index.upsert: a record replaces the stored record of the same id
Upserted(records, batch) ==
    LET ids == {batch[k].id : k \in 1..Len(batch)}
    IN  [id \in DOMAIN records \cup ids |->
            IF id \in ids
            THEN LET k == CHOOSE j \in 1..Len(batch) :
                              /\ batch[j].id = id
                              /\ \A m \in (j + 1)..Len(batch) : batch[m].id # id
                 IN  [values |-> batch[k].values, metadata |-> batch[k].metadata]
            ELSE records[id]]

Runs == 1..MaxRuns

IdleRun ==
    [pc |-> "idle", documents |-> <<>>, chunks |-> <<>>, sawIndex |-> FALSE,
     to_upsert |-> <<>>, i |-> 0, upserts |-> <<>>, added |-> 0, exc |-> {}]

\* an exception as the caller of process_and_index_pdfs receives it: the text of
\* the service's error; nothing in it counts the records already written
Exception(at, err) == [at |-> at, err |-> err, written |-> {}]

Fail(r, at, err) ==
    run' = [run EXCEPT ![r].pc = "failed", ![r].exc = {Exception(at, err)}]

\* process_and_index_pdfs is entered (from the thread of /process_pdfs, or from
\* the command line); runs are numbered in the order they start
StartRun(r) ==
    /\ run[r].pc = "idle"
    /\ \A earlier \in 1..(r - 1) : run[earlier].pc # "idle"
    /\ run' = [run EXCEPT ![r].pc = "extract"]

\* documents = process_pdfs_directory(directory_path); return if there are none
ExtractDocuments(r) ==
    /\ run[r].pc = "extract"
    /\ LET res == process_pdfs_directory(directory)
       IN  IF Raised(res) THEN Fail(r, "extract", ErrorOf(res))
           ELSE run' = [run EXCEPT ![r].documents = ValueOf(res),
                                   ![r].pc = IF ValueOf(res) = <<>> THEN "done"
                                             ELSE "chunk"]
    /\ UNCHANGED <<directory, nextId, store>>
    /\ UNCHANGED <<queryVars, appVars>>

\* chunks = chunk_documents(documents)
ChunkDocuments(r) ==
    /\ run[r].pc = "chunk"
    /\ LET chunks == chunk_documents(run[r].documents, nextId)
       IN  /\ run' = [run EXCEPT ![r].chunks = chunks, ![r].pc = "list_indexes"]
           /\ nextId' = nextId + Len(chunks)
    /\ UNCHANGED <<directory, store>>
    /\ UNCHANGED <<queryVars, appVars>>

\* initialize_pinecone, first half: pc.list_indexes()
ListIndexes(r) ==
    /\ run[r].pc = "list_indexes"
    /\ \/ run' = [run EXCEPT ![r].sawIndex = store.exists, ![r].pc = "open_index"]
       \/ \E e \in ErrorTexts : Fail(r, "index", e)
    /\ UNCHANGED <<directory, nextId, store>>
    /\ UNCHANGED <<queryVars, appVars>>

\* initialize_pinecone, second half: create the index if it was not listed (the
\* service refuses a name that exists by now), then pc.Index(index_name)
OpenIndex(r) ==
    /\ run[r].pc = "open_index"
    /\ \/ /\ run[r].sawIndex
          /\ run' = [run EXCEPT ![r].pc = "embed"]
          /\ UNCHANGED store
       \/ /\ ~run[r].sawIndex
          /\ ~store.exists
          /\ store' = [store EXCEPT !.exists = TRUE]
          /\ run' = [run EXCEPT ![r].pc = "embed"]
       \/ /\ ~run[r].sawIndex
          /\ store.exists
          /\ Fail(r, "index", <<"ALREADY_EXISTS">>)
          /\ UNCHANGED store
       \/ /\ ~run[r].sawIndex
          /\ \E e \in ErrorTexts : Fail(r, "index", e)
          /\ UNCHANGED store
    /\ UNCHANGED <<directory, nextId>>
    /\ UNCHANGED <<queryVars, appVars>>

\* embed_and_upload up to the batch loop: embed the texts, build to_upsert
EmbedChunks(r) ==
    /\ run[r].pc = "embed"
    /\ \/ run' = [run EXCEPT ![r].to_upsert = Payload(run[r].chunks),
                             ![r].i = 0, ![r].pc = "upsert"]
       \/ \E e \in ErrorTexts : Fail(r, "embed", e)
    /\ UNCHANGED <<directory, nextId, store>>
    /\ UNCHANGED <<queryVars, appVars>>

\* one turn of the batch loop: index.upsert(vectors=batch)
UpsertBatch(r) ==
    /\ run[r].pc = "upsert"
    /\ run[r].i < Len(run[r].to_upsert)
    /\ LET batch == Batch(run[r].to_upsert, run[r].i)
           after == Upserted(store.records, batch)
       IN  \/ /\ store' = [store EXCEPT !.records = after]
              /\ run' = [run EXCEPT
                    ![r].upserts = Append(@, batch),
                    ![r].added = @ + Cardinality(DOMAIN after)
                                   - Cardinality(DOMAIN store.records),
                    ![r].i = @ + BatchSize]
           \/ /\ \E e \in ErrorTexts : Fail(r, "upsert", e)
              /\ UNCHANGED store
    /\ UNCHANGED <<directory, nextId>>
    /\ UNCHANGED <<queryVars, appVars>>

\* the loop is over: embed_and_upload and process_and_index_pdfs return
FinishUpload(r) ==
    /\ run[r].pc = "upsert"
    /\ run[r].i >= Len(run[r].to_upsert)
    /\ run' = [run EXCEPT ![r].pc = "done"]
    /\ UNCHANGED <<directory, nextId, store>>
    /\ UNCHANGED <<queryVars, appVars>>

IngestStep(r) ==
    \/ ExtractDocuments(r)
    \/ ChunkDocuments(r)
    \/ ListIndexes(r)
    \/ OpenIndex(r)
    \/ EmbedChunks(r)
    \/ UpsertBatch(r)
    \/ FinishUpload(r)

-----------------------------------------------------------------------------
(* app.py: the background initialization thread and the request handlers *)

\* what str(e) can be for an exception raised while the engine is constructed
InitErrors == {<<>>, <<"Index 'medical' not found in Pinecone.">>}

\* Python truth value of a global that holds None ({}) or a string ({s})
Truthy(opt) == opt # {} /\ DictGet(opt, <<>>) # <<>>

Idle == [pc |-> "idle"]

\* initialize_engine: MedicalRAGEngine() returns and rag_engine is bound, or it
\* raises
InitConstruct ==
    /\ initPc.pc = "start"
    /\ \/ /\ rag_engine' = "engine"
          /\ initPc' = [pc |-> "constructed"]
       \/ /\ \E e \in InitErrors : initPc' = [pc |-> "raised", err |-> e]
          /\ UNCHANGED rag_engine
    /\ UNCHANGED <<initialization_complete, initialization_error>>
    /\ UNCHANGED <<statusH, queryH, processH, queryVars, ingestVars>>

\* except branch: initialization_error = str(e)
InitSetError ==
    /\ initPc.pc = "raised"
    /\ initialization_error' = {initPc.err}
    /\ initPc' = [pc |-> "error_set"]
    /\ UNCHANGED <<rag_engine, initialization_complete>>
    /\ UNCHANGED <<statusH, queryH, processH, queryVars, ingestVars>>

\* either branch: initialization_complete = True
InitSetComplete ==
    /\ initPc.pc \in {"constructed", "error_set"}
    /\ initialization_complete' = TRUE
    /\ initPc' = [pc |-> "done"]
    /\ UNCHANGED <<rag_engine, initialization_error>>
    /\ UNCHANGED <<statusH, queryH, processH, queryVars, ingestVars>>

InitThread == InitConstruct \/ InitSetError \/ InitSetComplete

\* what a handler leaves alone
StatusOnly ==
    UNCHANGED <<rag_engine, initialization_complete, initialization_error, initPc,
                queryH, processH, queryVars, ingestVars>>
QueryOnly ==
    UNCHANGED <<rag_engine, initialization_complete, initialization_error, initPc,
                statusH, processH, queryVars, ingestVars>>
ProcessOnly ==
    UNCHANGED <<rag_engine, initialization_complete, initialization_error, initPc,
                statusH, queryH, queryVars>>

\* what a poll that starts now can know of the ingestion runs started so far
IngestionSummary ==
    LET started == {r \in Runs : run[r].pc # "idle"}
    IN  IF started = {} THEN "none"
        ELSE IF \A r \in started : run[r].pc = "failed" THEN "failed"
        ELSE IF \A r \in started : run[r].pc = "done" THEN "done"
        ELSE "running"

\* GET /status: `if not initialization_complete`
status_begin ==
    /\ statusH.pc = "idle"
    /\ statusH' =
         IF ~initialization_complete
         THEN [pc |-> "respond", code |-> 202, status |-> "initializing",
               ingestion |-> IngestionSummary]
         ELSE [pc |-> "check_error", ingestion |-> IngestionSummary]
    /\ StatusOnly

\* GET /status: `elif initialization_error`, else ready
status_check_error ==
    /\ statusH.pc = "check_error"
    /\ statusH' =
         IF Truthy(initialization_error)
         THEN [pc |-> "respond", code |-> 500, status |-> "error",
               ingestion |-> statusH.ingestion]
         ELSE [pc |-> "respond", code |-> 200, status |-> "ready",
               ingestion |-> statusH.ingestion]
    /\ StatusOnly

status_return ==
    /\ statusH.pc = "respond"
    /\ statusH' = Idle
    /\ StatusOnly

status == status_begin \/ status_check_error \/ status_return

\* the bodies a client can post to /query: no 'query' key, an empty one, a query
QueryRequests == {{}, {<<>>}} \cup {{q} : q \in UserQueries}

\* whether MedicalRAGEngine.query can raise into the handler
EngineCallRaises == {engine_query(env).raised : env \in QueryEnvs}

\* POST /query: `if not initialization_complete`
query_begin ==
    /\ queryH.pc = "idle"
    /\ queryH' = IF ~initialization_complete
                 THEN [pc |-> "respond", code |-> 503, calledOn |-> "nothing"]
                 ELSE [pc |-> "check_error"]
    /\ QueryOnly

\* POST /query: `if initialization_error`
query_check_error ==
    /\ queryH.pc = "check_error"
    /\ queryH' = IF Truthy(initialization_error)
                 THEN [pc |-> "respond", code |-> 500, calledOn |-> "nothing"]
                 ELSE [pc |-> "call"]
    /\ QueryOnly

\* POST /query past both guards: read the body, then rag_engine.query(user_query)
\* inside the try; None has no query attribute
query_call ==
    /\ queryH.pc = "call"
    /\ \E body \in QueryRequests :
         IF ~Truthy(body)
         THEN queryH' = [pc |-> "respond", code |-> 400, calledOn |-> "nothing"]
         ELSE IF rag_engine = "None"
         THEN queryH' = [pc |-> "respond", code |-> 500, calledOn |-> "None"]
         ELSE \E raised \in EngineCallRaises :
                 queryH' = [pc |-> "respond", code |-> IF raised THEN 500 ELSE 200,
                            calledOn |-> "engine"]
    /\ QueryOnly

query_return ==
    /\ queryH.pc = "respond"
    /\ queryH' = Idle
    /\ QueryOnly

query == query_begin \/ query_check_error \/ query_call \/ query_return

\* POST /process_pdfs with no directory, or one that os.path.isdir rejects
process_pdfs_rejected ==
    /\ processH.pc = "idle"
    /\ processH' = [pc |-> "respond", code |-> 400, started |-> {}]
    /\ UNCHANGED ingestVars
    /\ ProcessOnly

\* POST /process_pdfs with a directory: start the thread, answer 202
process_pdfs_accepted ==
    /\ processH.pc = "idle"
    /\ \E r \in Runs :
        /\ StartRun(r)
        /\ processH' = [pc |-> "respond", code |-> 202, started |-> {r}]
    /\ UNCHANGED <<directory, nextId, store>>
    /\ ProcessOnly

process_pdfs_return ==
    /\ processH.pc = "respond"
    /\ processH' = Idle
    /\ UNCHANGED ingestVars
    /\ ProcessOnly

process_pdfs == process_pdfs_rejected \/ process_pdfs_accepted \/ process_pdfs_return

\* pdf_processor.py run as a script: process_and_index_pdfs(sys.argv[1])
main(r) ==
    /\ StartRun(r)
    /\ UNCHANGED <<directory, nextId, store>>
    /\ UNCHANGED <<queryVars, appVars>>

-----------------------------------------------------------------------------
(* Specifications *)

IdleStore == [exists |-> TRUE, records |-> <<>>]

AppIdle ==
    /\ rag_engine = "None"
    /\ initialization_complete = FALSE
    /\ initialization_error = {}
    /\ initPc = [pc |-> "start"]
    /\ statusH = Idle
    /\ queryH = Idle
    /\ processH = Idle

IngestIdle ==
    /\ directory = <<>>
    /\ nextId = 1
    /\ store = IdleStore
    /\ run = [r \in Runs |-> IdleRun]

\* the query pipeline of one engine
SpecQueryInit == QueryInit /\ IngestIdle /\ AppIdle
SpecQueryNext == QueryCall \/ QueryReturn
SpecQuery == SpecQueryInit /\ [][SpecQueryNext]_vars

\* embed_and_upload on any list of up to MaxChunks chunks, as chunk_documents
\* builds them
UploadChunks(n) ==
    [k \in 1..n |->
        LET text == <<(<<"Aspirin", "Ibuprofen", "Paracetamol">>)[(k % 3) + 1]>>
        IN  [id |-> ChunkId(k, <<"a", "pdf">>, k - 1),
             text |-> text,
             metadata |-> [source |-> <<"a", "pdf">>, chunk_index |-> k - 1,
                           text |-> text]]]

SpecUploadInit ==
    /\ QueryInit /\ AppIdle
    /\ directory = <<>>
    /\ store = IdleStore
    /\ \E n \in 0..MaxChunks :
        /\ nextId = n + 1
        /\ run = [r \in Runs |->
                    IF r = 1
                    THEN [IdleRun EXCEPT !.pc = "embed", !.chunks = UploadChunks(n)]
                    ELSE IdleRun]
SpecUploadNext == \E r \in Runs : EmbedChunks(r) \/ UpsertBatch(r) \/ FinishUpload(r)
SpecUpload == SpecUploadInit /\ [][SpecUploadNext]_vars

\* ingestion runs over one directory and one vector store, from before the
\* index is created: the first run to open it creates it
SpecIngestInit ==
    /\ QueryInit /\ AppIdle
    /\ directory \in Directories
    /\ nextId = 1
    /\ store = [exists |-> FALSE, records |-> <<>>]
    /\ run = [r \in Runs |-> IdleRun]
SpecIngestNext == \E r \in Runs : main(r) \/ IngestStep(r)
SpecIngest == SpecIngestInit /\ [][SpecIngestNext]_vars

\* the Flask process: the initialization thread, the three routes and the
\* ingestion threads they start
AppDirectory ==
    [n \in {<<"a", "pdf">>} |-> [kind |-> "pdf", pages |-> <<{<<"Aspirin reduces fever.">>}>>]]

Init ==
    /\ QueryInit /\ AppIdle
    /\ directory = AppDirectory
    /\ nextId = 1
    /\ store = IdleStore
    /\ run = [r \in Runs |-> IdleRun]
Next ==
    \/ InitThread
    \/ status
    \/ query
    \/ process_pdfs
    \/ \E r \in Runs : IngestStep(r)
Spec == Init /\ [][Next]_vars

-----------------------------------------------------------------------------
(* Properties of the query pipeline, checked under SpecQuery *)

AllWhitespace(text) == \A j \in DOMAIN text : text[j] \in Whitespace

\* the matches the store returned to the call in progress, if it returned any
ReturnedMatches ==
    IF qenv.embed.kind = "ok" /\ qenv.store.kind = "ok" THEN qenv.store.matches ELSE {}

NoContextAnswer == [response |-> PyStr(NoContextMessage), sources |-> <<>>]

\* C1: when the combined context that retrieve_relevant_context returned is empty
\* or whitespace-only (zero matches included), query does not invoke the
\* generative model and returns exactly the no-context message with an empty
\* source list; the generative model is invoked only with the retrieved context,
\* and only when it holds a non-whitespace symbol.
C1_NoUngroundedGeneration ==
    qpc = "done" =>
        /\ \A v \in qres.retrieved :
              AllWhitespace(v.combined_context) =>
                 /\ qres.llmCalls = <<>>
                 /\ ~qres.raised
                 /\ qres.value = NoContextAnswer
        /\ \A ms \in ReturnedMatches :
              ms = <<>> => qres.llmCalls = <<>> /\ qres.value = NoContextAnswer
        /\ \A k \in DOMAIN qres.llmCalls :
              /\ ~AllWhitespace(qres.llmCalls[k].context)
              /\ \A v \in qres.retrieved :
                    qres.llmCalls[k].context = v.combined_context

\* C1 witness: a match whose text is a blank gives a context that is not empty
\* but whitespace-only, and the call ends with the no-context message
C1_Witness ==
    /\ qpc = "done"
    /\ \E v \in qres.retrieved :
          v.combined_context # <<>> /\ AllWhitespace(v.combined_context)
    /\ qres.value = NoContextAnswer

\* the generative service answered with no choices, or with a first choice whose
\* text is empty after trimming
EmptyCompletion(llm) ==
    /\ llm.kind = "ok"
    /\ \A cs \in llm.choices :
          \/ cs = <<>>
          \/ \E t \in cs[1].text : AllWhitespace(t)

\* C2: when the generative service returns zero choices or a first choice that
\* is empty after trimming, the response text query returns is the fallback
\* message, a string as in the successful case.
C2_FallbackIsAString ==
    (qpc = "done" /\ qres.llmCalls # <<>> /\ EmptyCompletion(qenv.llm)) =>
        qres.value.response = PyStr(FallbackMessage)

\* the text of the error that interrupted the call in progress, if one did
UnderlyingError ==
    IF qenv.embed.kind = "raise" THEN {qenv.embed.err}
    ELSE IF qenv.store.kind = "raise" THEN {qenv.store.err}
    ELSE IF qenv.store.matches = {} THEN {<<"KeyError:", " ", "'matches'">>}
    ELSE IF qres.llmCalls # <<>> /\ qenv.llm.kind = "raise" THEN {qenv.llm.err}
    ELSE IF qres.llmCalls # <<>> /\ qenv.llm.kind = "ok"
            /\ \E cs \in qenv.llm.choices : cs # <<>> /\ cs[1].text = {}
         THEN {<<"KeyError:", " ", "'text'">>}
    ELSE {}

\* C3: when the embedding call, the store query, the reading of the matches or
\* the generative call fails, query does not raise: it returns the fixed error
\* message with an empty source list, and the text returned does not contain the
\* text of the error.
C3_FailuresBecomeFixedMessage ==
    (qpc = "done" /\ UnderlyingError # {}) =>
        /\ ~qres.raised
        /\ qres.value.response = PyStr(ErrorMessage)
        /\ qres.value.sources = <<>>
        /\ \A e \in UnderlyingError : ~Contains(qres.value.response.str, e)

\* C3 witness: the generative service fails after a successful retrieval
C3_Witness ==
    /\ qpc = "done"
    /\ qres.llmCalls # <<>>
    /\ qenv.llm.kind = "raise"
    /\ qres.value = [response |-> PyStr(ErrorMessage), sources |-> <<>>]

\* the source a match cites
CitedSource(match) ==
    IF match.metadata = {} THEN "Unknown"
    ELSE LET md == CHOOSE m \in match.metadata : TRUE
         IN  IF md.source = {} THEN "Unknown" ELSE CHOOSE x \in md.source : TRUE

\* C7: the source list retrieve_relevant_context returns holds each source
\* cited by at least one match exactly once and nothing else, a match without a
\* source counting as "Unknown"; zero matches give an empty list and an empty
\* context.
C7_SourcesDeduplicated ==
    qpc = "done" =>
        \A v \in qres.retrieved : \A ms \in ReturnedMatches :
            LET cited == {CitedSource(ms[i]) : i \in DOMAIN ms}
            IN  /\ \A src \in cited :
                      Cardinality({j \in DOMAIN v.sources : v.sources[j] = src}) = 1
                /\ Range(v.sources) \subseteq cited
                /\ ms = <<>> => v.sources = <<>> /\ v.combined_context = <<>>

\* C7 witness: two matches cite the same source, which is listed once
C7_Witness ==
    /\ qpc = "done"
    /\ \E v \in qres.retrieved : \E ms \in ReturnedMatches :
          /\ Len(ms) = 2
          /\ CitedSource(ms[1]) = "drugA.pdf"
          /\ CitedSource(ms[2]) = "drugA.pdf"
          /\ v.sources = <<"drugA.pdf">>

-----------------------------------------------------------------------------
(* Properties of embed_and_upload, checked under SpecUpload *)

RECURSIVE Flatten(_)
Flatten(batches) ==
    IF batches = <<>> THEN <<>> ELSE Head(batches) \o Flatten(Tail(batches))

\* the ids a run has had upserted
UpsertedIds(r) ==
    LET flat == Flatten(run[r].upserts) IN {flat[k].id : k \in DOMAIN flat}

\* C4: when the upsert of a batch fails, no later batch is upserted, none is
\* retried, and the failure reaches the caller together with the count of the
\* records written before the failing batch.
C4_FailureCarriesCount ==
    \A r \in Runs :
        (run[r].pc = "failed" /\ \E x \in run[r].exc : x.at = "upsert") =>
            /\ DOMAIN store.records = UpsertedIds(r)
            /\ \A x \in run[r].exc : x.written = {Len(Flatten(run[r].upserts))}

\* C5: without an upsert failure, embed_and_upload on N chunks issues exactly
\* ceil(N/100) upserts; each but the last holds 100 records and the last the
\* rest; the batches in call order are the N records, in chunk order, each with
\* its chunk's id, the vector of its chunk's text and its chunk's metadata.
C5_BatchedUpload ==
    \A r \in Runs :
        LET N == Len(run[r].chunks)
            batches == run[r].upserts
            flat == Flatten(batches)
        IN  /\ Len(flat) <= N
            /\ \A k \in DOMAIN flat :
                  /\ flat[k].id = run[r].chunks[k].id
                  /\ flat[k].values = EmbedText(run[r].chunks[k].text)
                  /\ flat[k].metadata = run[r].chunks[k].metadata
            /\ run[r].pc = "done" =>
                  /\ Len(batches) = (N + 99) \div 100
                  /\ Len(flat) = N
                  /\ \A b \in 1..(Len(batches) - 1) : Len(batches[b]) = 100
                  /\ batches # <<>> =>
                        Len(batches[Len(batches)]) = N - 100 * (Len(batches) - 1)

\* C5 witness: 250 chunks went up as batches of 100, 100 and 50
C5_Witness ==
    /\ run[1].pc = "done"
    /\ Len(run[1].chunks) = 250
    /\ Len(run[1].upserts) = 3
    /\ Len(run[1].upserts[1]) = 100
    /\ Len(run[1].upserts[2]) = 100
    /\ Len(run[1].upserts[3]) = 50
    /\ Cardinality(DOMAIN store.records) = 250

-----------------------------------------------------------------------------
(* Properties of ingestion runs, checked under SpecIngest *)

\* a file some page of which holds a non-whitespace symbol
HasText(content) ==
    /\ content.kind # "unreadable"
    /\ \E p \in DOMAIN content.pages : \E t \in content.pages[p] : ~AllWhitespace(t)

\* the .pdf files of the directory that can be read and hold text
GoodFiles == {n \in DOMAIN directory : n[2] = "pdf" /\ HasText(directory[n])}

\* C8: a failure that concerns one file never aborts the run: whatever files
\* fail, every other .pdf file with non-whitespace text yields its document, is
\* chunked and, the upload completing, is in the store; a file without text
\* yields no document.
C8_FileFailuresIsolated ==
    \A r \in Runs :
        /\ \A x \in run[r].exc : x.at # "extract"
        /\ run[r].pc \notin {"idle", "extract"} =>
              /\ {run[r].documents[d].source : d \in DOMAIN run[r].documents} = GoodFiles
              /\ Len(run[r].documents) = Cardinality(GoodFiles)
        /\ run[r].pc \in {"list_indexes", "open_index", "embed", "upsert", "done"} =>
              \A f \in GoodFiles :
                  \E k \in DOMAIN run[r].chunks : run[r].chunks[k].metadata.source = f
        /\ run[r].pc = "done" =>
              \A f \in GoodFiles :
                  \E k \in DOMAIN run[r].chunks :
                      /\ run[r].chunks[k].metadata.source = f
                      /\ run[r].chunks[k].id \in DOMAIN store.records
                      /\ store.records[run[r].chunks[k].id].metadata.source = f

\* C8 witness: a run is complete over a directory with an unreadable .pdf and a
\* readable one, whose chunks are in the store
C8_Witness ==
    \E r \in Runs :
        /\ run[r].pc = "done"
        /\ \E n \in DOMAIN directory : n[2] = "pdf" /\ directory[n] = Unreadable
        /\ GoodFiles # {}
        /\ \A f \in GoodFiles :
              \E id \in DOMAIN store.records : store.records[id].metadata.source = f

\* every chunk of every run, as <<run, position>>
ChunkRefs == UNION {{<<r, k>> : k \in DOMAIN run[r].chunks} : r \in Runs}

RECURSIVE SumAdded(_)
SumAdded(r) == IF r = 0 THEN 0 ELSE run[r].added + SumAdded(r - 1)

\* C9: chunk ids are pairwise distinct within a run and across runs, re-runs
\* over the same documents included, so no upsert replaces a stored record:
\* every run has added as many records as it has had upserted, a complete run as
\* many as it created chunks.
C9_FreshChunkIds ==
    /\ \A a \in ChunkRefs : \A b \in ChunkRefs :
          a # b => run[a[1]].chunks[a[2]].id # run[b[1]].chunks[b[2]].id
    /\ \A r \in Runs :
          /\ run[r].added = Len(Flatten(run[r].upserts))
          /\ run[r].pc = "done" => run[r].added = Len(run[r].chunks)
    /\ Cardinality(DOMAIN store.records) = SumAdded(MaxRuns)

\* C9 witness: two complete runs over the same documents left twice the chunks
\* of one run in the store
C9_Witness ==
    /\ run[1].pc = "done"
    /\ run[2].pc = "done"
    /\ Len(run[1].chunks) >= 2
    /\ run[1].documents = run[2].documents
    /\ Cardinality(DOMAIN store.records) = 2 * Len(run[1].chunks)

-----------------------------------------------------------------------------
(* Properties of the Flask process, checked under Spec *)

\* C6: the ingestion trigger answers once the run is started, and a status
\* poll that begins after the runs started so far failed reports "failed", one
\* that begins after they completed reports "done".
C6_IngestionStatusReported ==
    /\ processH.pc = "respond" /\ processH.code = 202 =>
          \A r \in processH.started : run[r].pc # "idle"
    /\ statusH.pc = "respond" =>
          /\ statusH.ingestion = "failed" => statusH.status = "failed"
          /\ statusH.ingestion = "done" => statusH.status = "done"

\* C10: whenever /status answers "ready" or /query has passed its two guards,
\* rag_engine holds a constructed engine, whatever the outcome of the
\* initialization and the text of its error.
C10_ReadyImpliesEngine ==
    /\ statusH.pc = "respond" /\ statusH.status = "ready" => rag_engine # "None"
    /\ queryH.pc = "call" => rag_engine # "None"
    /\ queryH.pc = "respond" => queryH.calledOn # "None"

=============================================================================
